---- MODULE Spec2Model ----
(***************************************************************************)
(* Mp4FfmpegCliPipeEncoder (src/encoder/mp4_ffmpeg_cli_pipe.rs): a sink    *)
(* that lazily spawns an ffmpeg child process on the first encoded frame,  *)
(* streams raw frames into its standard input and shuts it down either     *)
(* gracefully (finish) or forcefully (Drop).                               *)
(*                                                                         *)
(* Rust's Option<T> is modelled as a sequence: None is <<>> and Some(v) is *)
(* <<v>>.  The handlers are written as operators over a record `s` that    *)
(* holds the encoder's fields, the operating-system side of the child      *)
(* process and the observation (history) variables; an action applies one  *)
(* handler to the current state and commits the result.                    *)
(***************************************************************************)
EXTENDS Integers, Sequences, FiniteSets, TLC

VARIABLES
    \* ---- fields of struct Mp4FfmpegCliPipeEncoder ----
    process,            \* Option<Child>; a Child is [stdin, stderr] of Option
    framerate,          \* u32
    crf,                \* u32
    preset,             \* String
    hardware_encoder,   \* Option<String>
    resolution,         \* Option<(u32, u32)>
    finished,           \* bool
    \* ---- ownership of the encoder value ----
    sink,               \* "alive" | "dropped"
    configs,            \* number of with_* calls made so far
    \* ---- operating-system side of the child process ----
    osProc,             \* "absent" | "running" | "exited" | "reaped"
    osStatus,           \* "none" | "success" | "failure" | "killed"
    stdinPipe,          \* bytes written into the child's standard input
    stdinOpen,          \* write end of the child's standard input is open
    drain,              \* stderr drain thread: "none" | "running" | "stopped"
    drainLogs,          \* bevy::log records of the drain thread
    \* ---- observations ----
    spawns,             \* invocations of successful Command::spawn calls
    drains,             \* per drain thread started: the number of I/O
                        \* operations done on the input channel before
    stderrReaders,      \* who has read from the child's stderr
    calls,              \* one record per encode call
    ioOps,              \* write_all / flush calls on the child's stdin
    events,             \* close_stdin / wait_timeout / kill / wait, in order
    waits,              \* what each wait_timeout call returned
    reaps,              \* number of times the child was reaped
    shutdowns,          \* graceful flag of each cleanup that took a process
    implicit,           \* number of times Drop ran its cleanup branch
    finishCalls,        \* number of finish calls
    logs,               \* bevy::log records of the main path, in order
    pc                  \* position of a finish or drop that runs in steps

vars == << process, framerate, crf, preset, hardware_encoder, resolution,
           finished, sink, configs, osProc, osStatus, stdinPipe, stdinOpen,
           drain, drainLogs, spawns, drains, calls, ioOps, events, waits,
           reaps, shutdowns, implicit, finishCalls, logs, pc,
           stderrReaders >>

----------------------------------------------------------------------------
\* Bounds of the model.
MaxCalls  == 2      \* encode calls per session
MaxConfig == 1      \* with_* calls per session
MaxBuffer == 2      \* bytes in a frame's buffer

\* Option<T>
None == <<>>
Some(v) == <<v>>
Unwrap(o) == o[1]

\* Defaults set by new().
DefaultFramerate == 60
DefaultCrf == 23
DefaultPreset == "fast"

\* Input domains.
Framerates == {DefaultFramerate, 30}
Crfs == {DefaultCrf, 18}
Presets == {DefaultPreset, "slow"}
HwCodecs == <<"h264_nvenc", "h264_qsv", "h264_vaapi", "h264_videotoolbox">>
HwCodecSet == {HwCodecs[i] : i \in 1..Len(HwCodecs)}
EncoderNames == {"h264_vaapi", "hevc_amf"}
Builds == {{}, {"h264_qsv", "h264_vaapi"}}
Idle == [at |-> "idle", child |-> None]
Resolutions == {<<1, 2>>, <<2, 2>>}
Buffer(colour) == [i \in 1..MaxBuffer |-> colour + i]
Images ==
    {[width |-> 1, height |-> 2, data |-> None],
     [width |-> 1, height |-> 2, data |-> Some(Buffer(10))],
     [width |-> 2, height |-> 1, data |-> Some(Buffer(20))]}
ExitStatuses == {"success", "failure"}
WaitOutcomes == {"exit_success", "exit_failure", "timeout", "error"}

\* The handlers' view of the state.
Self ==
    [process |-> process, framerate |-> framerate, crf |-> crf,
     preset |-> preset, hardware_encoder |-> hardware_encoder,
     resolution |-> resolution, finished |-> finished,
     osProc |-> osProc, osStatus |-> osStatus, stdinPipe |-> stdinPipe,
     stdinOpen |-> stdinOpen, drain |-> drain, spawns |-> spawns,
     drains |-> drains, stderrReaders |-> stderrReaders, calls |-> calls,
     ioOps |-> ioOps, events |-> events,
     waits |-> waits,
     reaps |-> reaps, shutdowns |-> shutdowns, implicit |-> implicit,
     finishCalls |-> finishCalls, logs |-> logs]

Commit(s) ==
    /\ process' = s.process
    /\ framerate' = s.framerate
    /\ crf' = s.crf
    /\ preset' = s.preset
    /\ hardware_encoder' = s.hardware_encoder
    /\ resolution' = s.resolution
    /\ finished' = s.finished
    /\ osProc' = s.osProc
    /\ osStatus' = s.osStatus
    /\ stdinPipe' = s.stdinPipe
    /\ stdinOpen' = s.stdinOpen
    /\ drain' = s.drain
    /\ spawns' = s.spawns
    /\ drains' = s.drains
    /\ stderrReaders' = s.stderrReaders
    /\ calls' = s.calls
    /\ ioOps' = s.ioOps
    /\ events' = s.events
    /\ waits' = s.waits
    /\ reaps' = s.reaps
    /\ shutdowns' = s.shutdowns
    /\ implicit' = s.implicit
    /\ finishCalls' = s.finishCalls
    /\ logs' = s.logs

Log(s, record) == [s EXCEPT !.logs = Append(@, record)]

----------------------------------------------------------------------------
\* new(): no process, the default configuration, finished false.
Init ==
    /\ process = None
    /\ framerate = DefaultFramerate
    /\ crf = DefaultCrf
    /\ preset = DefaultPreset
    /\ hardware_encoder = None
    /\ resolution = None
    /\ finished = FALSE
    /\ sink = "alive"
    /\ configs = 0
    /\ osProc = "absent"
    /\ osStatus = "none"
    /\ stdinPipe = <<>>
    /\ stdinOpen = FALSE
    /\ drain = "none"
    /\ drainLogs = <<>>
    /\ spawns = <<>>
    /\ drains = <<>>
    /\ stderrReaders = {}
    /\ calls = <<>>
    /\ ioOps = <<>>
    /\ events = <<>>
    /\ waits = <<>>
    /\ reaps = 0
    /\ shutdowns = <<>>
    /\ implicit = 0
    /\ finishCalls = 0
    /\ logs = <<>>
    /\ pc = Idle

----------------------------------------------------------------------------
\* Configuration mutators.
with_framerate(s, f) == [s EXCEPT !.framerate = f]
with_crf(s, c) == [s EXCEPT !.crf = c]
with_preset(s, p) == [s EXCEPT !.preset = p]
with_hardware_encoder(s, e) == [s EXCEPT !.hardware_encoder = Some(e)]
\* Variant: setting the resolution spawns the process at once.
with_resolution_spawning(s, w, h) ==
    [s EXCEPT !.resolution = Some(<<w, h>>),
              !.process = Some([stdin |-> Some("pipe"), stderr |-> None]),
              !.osProc = "running", !.stdinOpen = TRUE]

with_resolution(s, w, h) == [s EXCEPT !.resolution = Some(<<w, h>>)]

----------------------------------------------------------------------------
\* detect_hardware_encoder(): the first of the four hardware codecs, in the
\* fixed order, that the executable advertises (test_encoder).
test_encoder(advertised, encoder) == encoder \in advertised

RECURSIVE DetectFrom(_, _)
DetectFrom(advertised, i) ==
    IF i > Len(HwCodecs) THEN None
    ELSE IF test_encoder(advertised, HwCodecs[i]) THEN Some(HwCodecs[i])
    ELSE DetectFrom(advertised, i + 1)

detect_hardware_encoder(advertised) == DetectFrom(advertised, 1)

\* Variant: detection takes precedence over the explicit preference.
ChooseEncoderDetectFirst(hw, advertised) ==
    IF detect_hardware_encoder(advertised) /= None
    THEN Unwrap(detect_hardware_encoder(advertised))
    ELSE IF hw /= None THEN Unwrap(hw) ELSE "libx264"

\* hardware_encoder.clone().or_else(detect).unwrap_or("libx264")
ChooseEncoder(hw, advertised) ==
    IF hw /= None THEN Unwrap(hw)
    ELSE IF detect_hardware_encoder(advertised) /= None
         THEN Unwrap(detect_hardware_encoder(advertised))
         ELSE "libx264"

\* Variant: a codec name outside the table gets no quality arguments.
QualityArgsKnownOnly(encoder, p, c) ==
    CASE encoder = "h264_nvenc" -> <<"-preset", p, "-cq", c>>
      [] encoder = "h264_qsv" -> <<"-preset", p, "-global_quality", c>>
      [] encoder = "h264_vaapi" ->
             <<"-vaapi_device", "/dev/dri/renderD128", "-qp", c>>
      [] encoder = "h264_videotoolbox" -> <<"-q:v", c>>
      [] encoder = "libx264" -> <<"-preset", p, "-crf", c>>
      [] OTHER -> <<>>

\* The codec-dependent quality arguments.
QualityArgs(encoder, p, c) ==
    CASE encoder = "h264_nvenc" -> <<"-preset", p, "-cq", c>>
      [] encoder = "h264_qsv" -> <<"-preset", p, "-global_quality", c>>
      [] encoder = "h264_vaapi" ->
             <<"-vaapi_device", "/dev/dri/renderD128", "-qp", c>>
      [] encoder = "h264_videotoolbox" -> <<"-q:v", c>>
      [] OTHER -> <<"-preset", p, "-crf", c>>

\* Variant: the explicit resolution is ignored.
EffectiveResolutionFrameOnly(res, image) == <<image.width, image.height>>

\* (width, height) declared to ffmpeg: the explicit resolution, else the
\* frame's own.
EffectiveResolution(res, image) ==
    IF res /= None THEN Unwrap(res) ELSE <<image.width, image.height>>

\* The invocation of ffmpeg (resolution, framerate, codec and quality
\* arguments), recorded together with what it was computed from: the
\* configured preference, preset and crf and the encoders the executable
\* advertises.
Invocation(s, image, advertised) ==
    LET wh == EffectiveResolution(s.resolution, image)
        encoder == ChooseEncoder(s.hardware_encoder, advertised)
    IN [width |-> wh[1], height |-> wh[2], framerate |-> s.framerate,
        encoder |-> encoder,
        quality |-> QualityArgs(encoder, s.preset, s.crf),
        preference |-> s.hardware_encoder, advertised |-> advertised,
        preset |-> s.preset, crf |-> s.crf]

\* Variant: the stderr handle is handed to the drain thread and also left in
\* the Child.
take_stderr_shared(child) == [handle |-> child.stderr, child |-> child]

\* child.stderr.take(): the handle moves out of the Child.
take_stderr(child) ==
    [handle |-> child.stderr, child |-> [child EXCEPT !.stderr = None]]

\* Variant: the child is stored in the encoder before the spawn is known to
\* have succeeded.
initialize_process_store_first(s, image, spawn_ok, advertised) ==
    LET s1 == Log(s, "info_using_encoder")
        child == [stdin |-> Some("pipe"), stderr |-> None]
        s2 == [s1 EXCEPT !.process = Some(child)]
    IN IF ~spawn_ok
       THEN [ok |-> FALSE, s |-> s2]
       ELSE [ok |-> TRUE,
             s |-> [s2 EXCEPT !.spawns =
                                 Append(@, Invocation(s, image, advertised)),
                              !.osProc = "running",
                              !.osStatus = "none",
                              !.stdinOpen = TRUE,
                              !.stdinPipe = <<>>,
                              !.drain = "running",
                              !.drains = Append(@, Len(s.ioOps))]]

\* initialize_process: builds the invocation, spawns, starts the stderr
\* drain thread and stores the child.  spawn_ok is the outcome of
\* Command::spawn; on failure `?` returns before anything is stored.
initialize_process(s, image, spawn_ok, advertised) ==
    LET s1 == Log(s, "info_using_encoder")
        child == [stdin |-> Some("pipe"), stderr |-> Some("pipe")]
        t == take_stderr(child)
        s2 == [s1 EXCEPT !.spawns = Append(@, Invocation(s, image, advertised)),
                         !.osProc = "running",
                         !.osStatus = "none",
                         !.stdinOpen = TRUE,
                         !.stdinPipe = <<>>]
        s3 == IF t.handle /= None
              THEN [s2 EXCEPT !.drain = "running",
                              !.drains = Append(@, Len(s.ioOps))]
              ELSE s2
    IN IF ~spawn_ok
       THEN [ok |-> FALSE, s |-> s1]
       ELSE [ok |-> TRUE,
             s |-> [s3 EXCEPT !.process = Some(t.child)]]

\* Variant: a frame without data is passed on as an empty buffer.
image_to_raw_bytes_lenient(image) ==
    IF image.data = None THEN [ok |-> TRUE, bytes |-> <<>>]
    ELSE [ok |-> TRUE, bytes |-> Unwrap(image.data)]

\* image_to_raw_bytes: the frame's buffer, or an error when it has none.
image_to_raw_bytes(image) ==
    IF image.data = None THEN [ok |-> FALSE, bytes |-> <<>>]
    ELSE [ok |-> TRUE, bytes |-> Unwrap(image.data)]

\* Variant: every encode call initialises.
NeedsInitAlways(s) == TRUE

\* The test at the top of encode: the process handle is absent.
NeedsInit(s) == s.process = None

\* Variant: the frame is held back and nothing reaches the pipe.
write_all_buffered(s, raw, die, k) ==
    IF s.osProc = "running" /\ die = "none"
    THEN [ok |-> TRUE, s |-> s]
    ELSE [ok |-> FALSE, s |-> s]

\* Variant: a failed write drops the process handle.
write_all_forget(s, raw, die, k) ==
    IF s.osProc = "running" /\ die = "none"
    THEN [ok |-> TRUE,
          s |-> [s EXCEPT !.stdinPipe = @ \o raw,
                          !.ioOps = Append(@, <<"write_all", Len(raw)>>)]]
    ELSE [ok |-> FALSE,
          s |-> [s EXCEPT !.ioOps = Append(@, <<"write_all", 0>>),
                          !.process = None,
                          !.osProc = IF @ = "running" THEN "exited" ELSE @,
                          !.osStatus = IF die /= "none" THEN die ELSE @]]

\* stdin.write_all(raw) on the pipe to the child.  While the child runs and
\* keeps reading, the whole buffer is written.  When the child exits during
\* the write (die is its exit status) only the first k bytes got into the
\* pipe and the call fails; when the child has already exited the call
\* fails with nothing written.
write_all(s, raw, die, k) ==
    IF s.osProc = "running" /\ die = "none"
    THEN [ok |-> TRUE,
          s |-> [s EXCEPT !.stdinPipe = @ \o raw,
                          !.ioOps = Append(@, <<"write_all", Len(raw)>>)]]
    ELSE IF s.osProc = "running"
    THEN LET n == IF k < Len(raw) THEN k ELSE Len(raw) - 1
         IN [ok |-> FALSE,
             s |-> [s EXCEPT !.stdinPipe = @ \o SubSeq(raw, 1, n),
                             !.ioOps = Append(@, <<"write_all", n>>),
                             !.osProc = "exited",
                             !.osStatus = die]]
    ELSE [ok |-> FALSE,
          s |-> [s EXCEPT !.ioOps = Append(@, <<"write_all", 0>>)]]

\* stdin.flush(): ChildStdin has no buffer of its own.
flush(s) == [s EXCEPT !.ioOps = Append(@, <<"flush">>)]

\* Encoder::encode.  Every return appends the call's record to `calls`: the
\* frame, the resolution configured when the call began, whether the call
\* spawned the child, the result, the number of bytes the call added to the
\* child's standard input and whether the process handle is present at the
\* return.
encode(s, image, spawn_ok, advertised, die, k) ==
    LET init == IF NeedsInit(s)
                THEN initialize_process(s, image, spawn_ok, advertised)
                ELSE [ok |-> TRUE, s |-> s]
        s1 == init.s
        return(t, result) ==
            [t EXCEPT !.calls =
                Append(@, [image |-> image,
                           resolution |-> s.resolution,
                           spawned |-> Len(t.spawns) > Len(s.spawns),
                           result |-> result,
                           written |-> Len(t.stdinPipe) - Len(s.stdinPipe),
                           present |-> t.process /= None])]
    IN IF ~init.ok THEN return(s1, "SpawnError")
       ELSE IF s1.process = None THEN return(s1, "NotInitialized")
       ELSE IF Unwrap(s1.process).stdin = None THEN return(s1, "NoStdin")
       ELSE LET raw == image_to_raw_bytes(image)
            IN IF ~raw.ok THEN return(s1, "NoData")
               ELSE LET w == write_all(s1, raw.bytes, die, k)
                    IN IF ~w.ok THEN return(w.s, "IoError")
                       ELSE return(flush(w.s), "Ok")

----------------------------------------------------------------------------
\* Operations on the child used by cleanup.

\* drop(process.stdin.take())
close_stdin(s, child) ==
    IF child.stdin /= None
    THEN [s EXCEPT !.stdinOpen = FALSE, !.events = Append(@, "close_stdin")]
    ELSE s

\* wait_timeout(&mut process, 10 s): a child that exits in time is reaped.
wait_timeout(s, out) ==
    LET s1 == [s EXCEPT !.events = Append(@, "wait_timeout"),
                        !.waits = Append(@, out)]
    IN IF out \in {"exit_success", "exit_failure"}
       THEN [s1 EXCEPT !.osProc = "reaped",
                       !.osStatus = IF out = "exit_success" THEN "success"
                                    ELSE "failure",
                       !.reaps = @ + 1]
       ELSE s1

\* The outcomes wait_timeout can have in the child's present state.
ValidWait(s, out) ==
    CASE s.osProc = "running" -> out \in WaitOutcomes
      [] s.osProc = "exited" ->
             \/ out = "error"
             \/ out = "exit_success" /\ s.osStatus = "success"
             \/ out = "exit_failure" /\ s.osStatus = "failure"
      [] OTHER -> out = "error"

\* Variant: the signal has no effect on the child.
kill_ignored(s) == [s EXCEPT !.events = Append(@, "kill")]

\* process.kill()
kill(s) ==
    LET s1 == [s EXCEPT !.events = Append(@, "kill")]
    IN IF s.osProc = "running"
       THEN [s1 EXCEPT !.osProc = "exited", !.osStatus = "killed"]
       ELSE s1

\* process.wait(): blocks until the child has exited and reaps it.
wait(s) ==
    LET s1 == [s EXCEPT !.events = Append(@, "wait")]
    IN IF s.osProc \in {"running", "exited"}
       THEN [s1 EXCEPT !.osProc = "reaped",
                       !.osStatus = IF s.osProc = "running" THEN "success"
                                    ELSE @,
                       !.reaps = @ + 1]
       ELSE s1

\* log_ffmpeg_error: reads the child's stderr when the Child still holds it.
log_ffmpeg_error(s, child, read_ok) ==
    IF child.stderr /= None
    THEN LET s1 == [s EXCEPT !.stderrReaders = @ \cup {"main"}]
         IN IF read_ok THEN Log(s1, "error_ffmpeg_failed_with_stderr")
            ELSE Log(s1, "error_ffmpeg_failed")
    ELSE Log(s, "error_ffmpeg_failed")

\* Variant: the timed-out child is killed but not waited on.
OnTimeoutNoWait(s) == kill(Log(s, "warn_timeout"))

\* Ok(None) arm of the graceful wait.
OnTimeout(s) == wait(kill(Log(s, "warn_timeout")))

\* Err(e) arm of the graceful wait.
OnWaitError(s) == kill(Log(s, "error_wait_failed"))

\* Forceful arm (from Drop).
Forceful(s) == wait(kill(s))

\* Variant: the input channel is closed after the child was waited on or
\* killed.
cleanup_close_last(s, graceful, out, read_ok) ==
    IF s.process = None THEN s
    ELSE LET child == [Unwrap(s.process) EXCEPT !.stdin = None]
             s1 == [s EXCEPT !.process = None,
                             !.shutdowns = Append(@, graceful)]
             s2 == IF graceful
                   THEN LET s3 == wait_timeout(s1, out)
                        IN CASE out = "exit_success" ->
                                    Log(s3, "info_completed")
                             [] out = "exit_failure" ->
                                    log_ffmpeg_error(s3, child, read_ok)
                             [] out = "timeout" -> OnTimeout(s3)
                             [] OTHER -> OnWaitError(s3)
                   ELSE Forceful(s1)
         IN close_stdin(s2, Unwrap(s.process))

\* cleanup(graceful): a no-op when the process handle is absent.
cleanup(s, graceful, out, read_ok) ==
    IF s.process = None THEN s
    ELSE LET child == [Unwrap(s.process) EXCEPT !.stdin = None]
             s1 == [s EXCEPT !.process = None,
                             !.shutdowns = Append(@, graceful)]
             s2 == close_stdin(s1, Unwrap(s.process))
         IN IF graceful
            THEN LET s3 == wait_timeout(s2, out)
                 IN CASE out = "exit_success" -> Log(s3, "info_completed")
                      [] out = "exit_failure" ->
                             log_ffmpeg_error(s3, child, read_ok)
                      [] out = "timeout" -> OnTimeout(s3)
                      [] OTHER -> OnWaitError(s3)
            ELSE Forceful(s2)

\* Encoder::finish, up to its return.
finish(s, out, read_ok) ==
    cleanup([s EXCEPT !.finished = TRUE, !.finishCalls = @ + 1],
            TRUE, out, read_ok)

\* Variant: the destructor does not look at `finished`.
DropGuardAlways(s) == TRUE

\* Variant: the destructor does not look at the process handle.
DropGuardUnfinished(s) == ~s.finished

\* The condition under which Drop cleans up.
DropGuard(s) == ~s.finished /\ s.process /= None

\* Variant: the destructor shuts down gracefully.
drop_graceful(s) ==
    IF DropGuard(s)
    THEN cleanup([Log(s, "warn_dropped_without_finish")
                     EXCEPT !.implicit = @ + 1], TRUE, "timeout", TRUE)
    ELSE s

\* Drop::drop
drop(s) ==
    IF DropGuard(s)
    THEN cleanup([Log(s, "warn_dropped_without_finish")
                     EXCEPT !.implicit = @ + 1], FALSE, "error", TRUE)
    ELSE s

----------------------------------------------------------------------------
\* Actions.

WithFramerate ==
    /\ sink = "alive" /\ calls = <<>> /\ configs < MaxConfig
    /\ \E f \in Framerates \ {framerate} : Commit(with_framerate(Self, f))
    /\ configs' = configs + 1
    /\ UNCHANGED << sink, drainLogs, pc >>

WithCrf ==
    /\ sink = "alive" /\ calls = <<>> /\ configs < MaxConfig
    /\ \E c \in Crfs \ {crf} : Commit(with_crf(Self, c))
    /\ configs' = configs + 1
    /\ UNCHANGED << sink, drainLogs, pc >>

WithPreset ==
    /\ sink = "alive" /\ calls = <<>> /\ configs < MaxConfig
    /\ \E p \in Presets \ {preset} : Commit(with_preset(Self, p))
    /\ configs' = configs + 1
    /\ UNCHANGED << sink, drainLogs, pc >>

WithHardwareEncoder ==
    /\ sink = "alive" /\ calls = <<>> /\ configs < MaxConfig
    /\ \E e \in EncoderNames : Commit(with_hardware_encoder(Self, e))
    /\ configs' = configs + 1
    /\ UNCHANGED << sink, drainLogs, pc >>

WithResolution ==
    /\ sink = "alive" /\ calls = <<>> /\ configs < MaxConfig
    /\ \E r \in Resolutions : Commit(with_resolution(Self, r[1], r[2]))
    /\ configs' = configs + 1
    /\ UNCHANGED << sink, drainLogs, pc >>

\* What the environment decides during one encode call: the outcome of
\* Command::spawn and the encoders the executable on this system advertises,
\* one of `builds` (both matter only when the call spawns), and whether the
\* child exits during the write, after k bytes.
EncodeEnv(s, image, builds) ==
    LET spawning == s.process = None
        writing == image.data /= None
    IN {e \in [spawn_ok : BOOLEAN, advertised : builds \cup {{}},
               die : {"none"} \cup ExitStatuses, k : 1..(MaxBuffer - 1)] :
            /\ ~spawning => e.spawn_ok
            /\ spawning => e.advertised \in builds
            /\ ~spawning => e.advertised = {}
            /\ (~writing \/ ~e.spawn_ok) => e.die = "none"
            /\ e.die = "none" => e.k = 1}

\* One encode call; the outcome of the spawn, the advertised encoders and
\* the child's behaviour during the write are the environment's.
EncodeWith(builds) ==
    /\ sink = "alive" /\ Len(calls) < MaxCalls
    /\ \E image \in Images : \E env \in EncodeEnv(Self, image, builds) :
            Commit(encode(Self, image, env.spawn_ok, env.advertised,
                          env.die, env.k))
    /\ UNCHANGED << sink, configs, drainLogs, pc >>

\* An encode call on a system whose executable is one of two builds.
Encode == EncodeWith(Builds)

\* An encode call on a system whose executable advertises any subset of the
\* hardware codecs.
EncodeAnyBuild == EncodeWith(SUBSET HwCodecSet)

\* finish(self: Box<Self>): the box is dropped when finish returns, which
\* runs Drop::drop.
Finish ==
    /\ sink = "alive"
    /\ \E out \in WaitOutcomes, read_ok \in BOOLEAN :
            /\ ValidWait(Self, out)
            /\ Commit(drop(finish(Self, out, read_ok)))
    /\ sink' = "dropped"
    /\ UNCHANGED << configs, drainLogs, pc >>

\* The encoder goes out of scope without finish.
Drop ==
    /\ sink = "alive"
    /\ Commit(drop(Self))
    /\ sink' = "dropped"
    /\ UNCHANGED << configs, drainLogs, pc >>

\* The child exits on its own.
ProcExit ==
    /\ osProc = "running"
    /\ \E status \in ExitStatuses :
            Commit([Self EXCEPT !.osProc = "exited", !.osStatus = status])
    /\ UNCHANGED << sink, configs, drainLogs, pc >>

\* One read of the drain thread's loop over reader.lines().
DrainRead(s) == [s EXCEPT !.stderrReaders = @ \cup {"drain"}]

\* The drain thread reads a line and logs it at debug level.
DrainLine ==
    /\ drain = "running"
    /\ Commit(DrainRead(Self))
    /\ UNCHANGED << sink, configs, drainLogs, pc >>

\* The drain thread reaches the end of the child's stderr.
DrainEof ==
    /\ drain = "running" /\ osProc \in {"exited", "reaped"}
    /\ Commit([DrainRead(Self) EXCEPT !.drain = "stopped"])
    /\ UNCHANGED << sink, configs, drainLogs, pc >>

\* Variant: the drain thread goes on reading after a failed read.
DrainReadErrorContinue ==
    /\ drain = "running"
    /\ Commit(DrainRead(Self))
    /\ drainLogs' = Append(drainLogs, "warn_stderr_read_failed")
    /\ UNCHANGED << sink, configs, pc >>

\* The drain thread fails to read a line.
DrainReadError ==
    /\ drain = "running"
    /\ Commit([DrainRead(Self) EXCEPT !.drain = "stopped"])
    /\ drainLogs' = Append(drainLogs, "warn_stderr_read_failed")
    /\ UNCHANGED << sink, configs, pc >>

Next ==
    \/ WithFramerate
    \/ WithCrf
    \/ WithPreset
    \/ WithHardwareEncoder
    \/ WithResolution
    \/ Encode
    \/ Finish
    \/ Drop
    \/ ProcExit
    \/ DrainLine
    \/ DrainEof
    \/ DrainReadError

Spec == Init /\ [][Next]_vars

\* The configuration and spawn of a session on every build of the
\* executable: the specification of the codec and quality-argument
\* properties.
NextCodec ==
    \/ WithFramerate
    \/ WithCrf
    \/ WithPreset
    \/ WithHardwareEncoder
    \/ WithResolution
    \/ EncodeAnyBuild
    \/ Finish

SpecCodec == Init /\ [][NextCodec]_vars

----------------------------------------------------------------------------
\* Helpers of the properties.

CallIds == 1..Len(calls)

HasData(i) == calls[i].image.data /= None

FrameBytes(i) == IF HasData(i) THEN Unwrap(calls[i].image.data) ELSE <<>>

\* The invocation of the spawn made by call i (for a call that spawned).
SpawnOf(i) == spawns[Cardinality({j \in 1..i : calls[j].spawned})]

Count(seq, x) == Cardinality({i \in 1..Len(seq) : seq[i] = x})

SessionOver == sink = "dropped"

EverSpawned == spawns /= <<>>

----------------------------------------------------------------------------
\* C1 as stated: whenever encode has been called with frames of consistent
\* width and height, the process has been spawned exactly once, by the first
\* call, with the first frame's dimensions when no resolution was configured,
\* and no later call spawned.
C1_Original ==
    (/\ calls /= <<>>
     /\ \A i \in CallIds : /\ calls[i].image.width = calls[1].image.width
                           /\ calls[i].image.height = calls[1].image.height)
    => /\ Len(spawns) = 1
       /\ calls[1].spawned
       /\ calls[1].resolution = None
            => /\ spawns[1].width = calls[1].image.width
               /\ spawns[1].height = calls[1].image.height
       /\ \A i \in CallIds : i > 1 => ~calls[i].spawned

\* C1 amended: the process is spawned at most once per session, by the first
\* encode call whose launch of the executable does not fail (the first call
\* when its launch succeeds); that spawn declares the width and height of
\* that call's frame when no explicit resolution is configured; no encode
\* call after the spawning one spawns.
C1_SpawnedOnce ==
    /\ Len(spawns) <= 1
    /\ Len(spawns) = Cardinality({i \in CallIds : calls[i].spawned})
    /\ \A i \in CallIds :
          /\ calls[i].spawned
               <=> /\ calls[i].result /= "SpawnError"
                   /\ \A j \in 1..(i - 1) : calls[j].result = "SpawnError"
          /\ (calls[i].spawned /\ calls[i].resolution = None)
               => /\ SpawnOf(i).width = calls[i].image.width
                  /\ SpawnOf(i).height = calls[i].image.height

\* Two frames of the same size were encoded, the first one spawned the
\* process with no resolution configured.
C1_Witness ==
    /\ Len(calls) >= 2
    /\ calls[1].spawned /\ calls[1].resolution = None
    /\ calls[1].result = "Ok" /\ calls[2].result = "Ok"
    /\ calls[2].image.width = calls[1].image.width
    /\ calls[2].image.height = calls[1].image.height

----------------------------------------------------------------------------
\* The state part of C2: at most one finish call; once finish has run the
\* destructor never enters its cleanup branch; the shutdown routine acts on
\* a process at most once, exactly once in a finished or destroyed session
\* that spawned one, and a graceful shutdown that saw the process exit is
\* not followed by a kill.
C2_State ==
    /\ finishCalls <= 1
    /\ finished => implicit = 0
    /\ Len(shutdowns) <= 1
    /\ (SessionOver /\ EverSpawned) => Len(shutdowns) = 1
    /\ finished => (\A i \in 1..Len(shutdowns) : shutdowns[i])
    /\ finished => ~("kill" \in {events[i] : i \in 1..Len(events)}
                     /\ waits \in {<<"exit_success">>, <<"exit_failure">>})

\* The step part of C2: `finished` never goes back to false and becomes true
\* only in a step that is a finish call.
C2_Step ==
    /\ finished => finished'
    /\ (~finished /\ finished')
         => (finishCalls' = finishCalls + 1 /\ sink = "alive" /\ SessionOver')

\* C2: C2_State holds in every state and every step satisfies C2_Step.
C2_FinishedOnce == [](C2_State) /\ [][C2_Step]_vars

\* finish shut a spawned process down and the sink was then destroyed.
C2_Witness ==
    /\ SessionOver /\ finished /\ EverSpawned
    /\ shutdowns = <<TRUE>> /\ implicit = 0

----------------------------------------------------------------------------
\* C3: a sink destroyed without finish while its process was present ran the
\* forceful shutdown exactly once (close the input, kill, wait), logged the
\* warning once and never took the graceful path.
C3_ForcefulOnDrop ==
    (SessionOver /\ ~finished /\ EverSpawned)
    => /\ shutdowns = <<FALSE>>
       /\ implicit = 1
       /\ events = <<"close_stdin", "kill", "wait">>
       /\ waits = <<>>
       /\ Count(logs, "warn_dropped_without_finish") = 1
       /\ osProc = "reaped" /\ reaps = 1

\* The sink was destroyed without finish after a frame had been encoded.
C3_Witness ==
    /\ SessionOver /\ ~finished /\ EverSpawned
    /\ \E i \in CallIds : calls[i].result = "Ok"
    /\ implicit = 1

----------------------------------------------------------------------------
\* C4 as stated: when the session is over, every spawned process has been
\* reaped exactly once, whichever way the shutdown went.
C4_ReapedOnce ==
    (SessionOver /\ EverSpawned) => (reaps = 1 /\ osProc = "reaped")

----------------------------------------------------------------------------
\* C5: when the graceful wait timed out with the process still running, the
\* process was killed and then waited on, so that after finish it is reaped,
\* and the timeout warning was logged.
C5_TimeoutReaped ==
    (finished /\ waits = <<"timeout">>)
    => /\ events = <<"close_stdin", "wait_timeout", "kill", "wait">>
       /\ osProc = "reaped" /\ osStatus = "killed" /\ reaps = 1
       /\ Count(logs, "warn_timeout") = 1

\* finish ran into the timeout.
C5_Witness == finished /\ waits = <<"timeout">> /\ SessionOver

----------------------------------------------------------------------------
\* C6 as stated: an encode call with a frame that has no pixel data fails and
\* adds no byte to the input channel, and when it is the first call of the
\* session it fails before any spawn: it spawned nothing and the process
\* handle is absent at its return.
C6_Original ==
    \A i \in CallIds :
        ~HasData(i)
        => /\ calls[i].result /= "Ok"
           /\ calls[i].written = 0
           /\ i = 1 => (~calls[i].spawned /\ ~calls[i].present)

\* C6 amended: an encode call with a frame that has no pixel data fails and
\* adds no byte to the input channel; when it is the first call of the
\* session the spawn comes first: the call fails for the missing data only
\* after it has spawned the process, whose handle is present at the return
\* (it is absent only when the launch itself failed).
C6_NoDataAfterSpawn ==
    \A i \in CallIds :
        ~HasData(i)
        => /\ calls[i].result \in {"NoData", "SpawnError"}
           /\ calls[i].written = 0
           /\ i = 1 => /\ calls[i].result = "NoData" <=> calls[i].spawned
                       /\ calls[i].present <=> calls[i].spawned

\* The first frame of the session had no data and the call spawned the
\* process before failing.
C6_Witness ==
    /\ calls /= <<>>
    /\ ~HasData(1) /\ calls[1].result = "NoData"
    /\ calls[1].spawned /\ calls[1].present /\ stdinPipe = <<>>

----------------------------------------------------------------------------
\* The buffers of the successfully encoded frames among the first n calls,
\* concatenated in call order.
RECURSIVE OkStream(_)
OkStream(n) ==
    IF n = 0 THEN <<>>
    ELSE OkStream(n - 1)
         \o (IF calls[n].result = "Ok" THEN FrameBytes(n) ELSE <<>>)

\* The first calls[i].written bytes of each frame among the first n calls,
\* concatenated in call order.
RECURSIVE WrittenStream(_)
WrittenStream(n) ==
    IF n = 0 THEN <<>>
    ELSE WrittenStream(n - 1) \o SubSeq(FrameBytes(n), 1, calls[n].written)

\* One complete write_all and a flush for a successful call, the failed
\* write_all alone for a call that failed in it, nothing else.
RECURSIVE ExpectedIo(_)
ExpectedIo(n) ==
    IF n = 0 THEN <<>>
    ELSE ExpectedIo(n - 1)
         \o (CASE calls[n].result = "Ok" ->
                    << <<"write_all", Len(FrameBytes(n))>>, <<"flush">> >>
               [] calls[n].result = "IoError" ->
                    << <<"write_all", calls[n].written>> >>
               [] OTHER -> <<>>)

\* C7 as stated: the bytes written to the input channel are exactly the
\* buffers of the successfully encoded frames, in call order.
C7_Original == stdinPipe = OkStream(Len(calls))

\* C7 amended: the bytes written to the input channel are the buffers of the
\* successfully encoded frames in call order, each written by one complete
\* write_all followed by a flush, followed by at most a proper prefix of the
\* buffer of the one frame whose write failed; after a failed write no call
\* adds a byte.
C7_OrderedStream ==
    /\ stdinPipe = WrittenStream(Len(calls))
    /\ ioOps = ExpectedIo(Len(calls))
    /\ \A i \in CallIds :
          /\ calls[i].result = "Ok" => calls[i].written = Len(FrameBytes(i))
          /\ calls[i].result = "IoError"
               => /\ 0 <= calls[i].written
                  /\ calls[i].written < Len(FrameBytes(i))
          /\ calls[i].result \notin {"Ok", "IoError"} => calls[i].written = 0
          /\ \A j \in CallIds :
                (i < j /\ calls[i].result = "IoError") => calls[j].written = 0
    /\ \E n \in 0..Len(calls) :
          /\ \A i \in 1..n : calls[i].result /= "IoError"
          /\ stdinPipe = OkStream(n)
                           \o (IF n < Len(calls)
                               THEN SubSeq(FrameBytes(n + 1), 1,
                                           calls[n + 1].written)
                               ELSE <<>>)

\* Two different frames were encoded one after the other.
C7_Witness ==
    /\ Len(calls) >= 2
    /\ calls[1].result = "Ok" /\ calls[2].result = "Ok"
    /\ FrameBytes(1) /= FrameBytes(2)

----------------------------------------------------------------------------
\* C8: in every shutdown of a present process the input channel is closed
\* before the first wait_timeout, kill or wait is issued.
C8_CloseFirst ==
    /\ \A i \in 1..Len(events) :
          events[i] \in {"wait_timeout", "kill", "wait"}
          => \E j \in 1..(i - 1) : events[j] = "close_stdin"
    /\ shutdowns /= <<>> => (events /= <<>> /\ events[1] = "close_stdin"
                             /\ ~stdinOpen)

\* A graceful shutdown waited on the process.
C8_Witness ==
    /\ shutdowns = <<TRUE>>
    /\ \E i \in 1..Len(events) : events[i] = "wait_timeout"

----------------------------------------------------------------------------
\* C9 as stated: after an encode call failed in the launch of the
\* executable, no later encode call spawns a process or encodes a frame.
C9_Original ==
    \A i \in CallIds : \A j \in CallIds :
        (i < j /\ calls[i].result = "SpawnError")
        => (~calls[j].spawned /\ calls[j].result /= "Ok")

\* C9 amended: a spawn failure fails that encode call alone: the call stores
\* no process handle and writes nothing, and the next encode call launches
\* the executable again, so that it either fails in the launch too or spawns
\* the process and goes on with its frame.
C9_SpawnRetried ==
    \A i \in CallIds :
        calls[i].result = "SpawnError"
        => /\ ~calls[i].spawned /\ ~calls[i].present
           /\ calls[i].written = 0
           /\ \A j \in 1..(i - 1) : calls[j].result = "SpawnError"
           /\ i < Len(calls)
                => \/ calls[i + 1].result = "SpawnError"
                   \/ calls[i + 1].spawned /\ calls[i + 1].present

\* The first encode call failed in the launch, the second one spawned the
\* process and encoded its frame.
C9_Witness ==
    /\ Len(calls) >= 2
    /\ calls[1].result = "SpawnError"
    /\ calls[2].spawned /\ calls[2].result = "Ok"

----------------------------------------------------------------------------
\* C10: a spawn made while an explicit resolution is configured declares
\* that resolution, whatever the frame's own width and height; a frame is
\* never refused for its dimensions (a call fails only in the launch, for
\* missing data or in the write) and a frame that was encoded went to the
\* input channel unaltered.
C10_ExplicitResolution ==
    \A i \in CallIds :
        calls[i].resolution /= None
        => /\ calls[i].spawned
                => /\ SpawnOf(i).width = calls[i].resolution[1][1]
                   /\ SpawnOf(i).height = calls[i].resolution[1][2]
           /\ calls[i].result \in {"Ok", "SpawnError", "NoData", "IoError"}
           /\ calls[i].result = "SpawnError" => ~calls[i].spawned
           /\ calls[i].result = "NoData" => ~HasData(i)
           /\ (calls[i].result = "Ok" /\ calls[i].written >= 0)
                => SubSeq(stdinPipe, Len(WrittenStream(i - 1)) + 1,
                          Len(WrittenStream(i - 1)) + Len(FrameBytes(i)))
                     = FrameBytes(i)

\* A frame whose size differs from the configured resolution spawned the
\* process and was encoded.
C10_Witness ==
    /\ calls /= <<>>
    /\ calls[1].resolution /= None /\ calls[1].spawned
    /\ calls[1].result = "Ok"
    /\ <<calls[1].image.width, calls[1].image.height>>
         /= calls[1].resolution[1]

----------------------------------------------------------------------------
\* finish and Drop in steps: the shutdown routine blocks in wait_timeout and
\* in wait, and the child can exit between any two of its steps.  pc.at is
\* the statement the caller's thread is at and pc.child the Child that
\* cleanup took out of self.process.

At(position) == [at |-> position, child |-> pc.child]

\* One encode call on a system without hardware encoders.
TdEncode == EncodeWith({{}})

\* finish(self: Box<Self>) is entered: the sink is consumed.
TdFinish ==
    /\ sink = "alive"
    /\ Commit([Self EXCEPT !.finished = TRUE, !.finishCalls = @ + 1])
    /\ sink' = "closing"
    /\ pc' = At("finish_take")
    /\ UNCHANGED << configs, drainLogs >>

\* The sink goes out of scope without finish: Drop::drop is entered.
TdDrop ==
    /\ sink = "alive"
    /\ sink' = "closing"
    /\ IF DropGuard(Self)
       THEN /\ Commit([Log(Self, "warn_dropped_without_finish")
                          EXCEPT !.implicit = @ + 1])
            /\ pc' = At("drop_take")
       ELSE /\ Commit(Self)
            /\ pc' = At("drop_return")
    /\ UNCHANGED << configs, drainLogs >>

\* cleanup: self.process.take() and, with a process, drop(stdin.take()).
TdTake ==
    /\ pc.at \in {"finish_take", "drop_take"}
    /\ IF process = None
       THEN /\ Commit(Self)
            /\ pc' = At(IF pc.at = "finish_take" THEN "finish_return"
                        ELSE "drop_return")
       ELSE /\ Commit(close_stdin(
                    [Self EXCEPT !.process = None,
                                 !.shutdowns = Append(@, pc.at = "finish_take")],
                    Unwrap(process)))
            /\ pc' = [at |-> IF pc.at = "finish_take"
                             THEN "finish_wait_timeout" ELSE "drop_kill",
                      child |-> Some([Unwrap(process) EXCEPT !.stdin = None])]
    /\ UNCHANGED << sink, configs, drainLogs >>

\* wait_timeout returns, at the latest when the timeout has elapsed, and the
\* arm of the match logs.
TdWaitTimeout ==
    /\ pc.at = "finish_wait_timeout"
    /\ \E out \in WaitOutcomes, read_ok \in BOOLEAN :
            /\ ValidWait(Self, out)
            /\ out /= "exit_failure" => read_ok
            /\ LET s == wait_timeout(Self, out)
               IN CASE out = "exit_success" ->
                           /\ Commit(Log(s, "info_completed"))
                           /\ pc' = At("finish_return")
                    [] out = "exit_failure" ->
                           /\ Commit(log_ffmpeg_error(s, Unwrap(pc.child),
                                                      read_ok))
                           /\ pc' = At("finish_return")
                    [] out = "timeout" ->
                           /\ Commit(Log(s, "warn_timeout"))
                           /\ pc' = At("finish_timeout_kill")
                    [] OTHER ->
                           /\ Commit(Log(s, "error_wait_failed"))
                           /\ pc' = At("finish_error_kill")
    /\ UNCHANGED << sink, configs, drainLogs >>

\* process.kill()
TdKill ==
    /\ pc.at \in {"finish_timeout_kill", "finish_error_kill", "drop_kill"}
    /\ Commit(kill(Self))
    /\ pc' = At(CASE pc.at = "finish_timeout_kill" -> "finish_wait"
                   [] pc.at = "finish_error_kill" -> "finish_return"
                   [] OTHER -> "drop_wait")
    /\ UNCHANGED << sink, configs, drainLogs >>

\* process.wait() returns: it blocks while the child is running.
TdWait ==
    /\ pc.at \in {"finish_wait", "drop_wait"}
    /\ osProc /= "running"
    /\ Commit(wait(Self))
    /\ pc' = At(IF pc.at = "finish_wait" THEN "finish_return"
                ELSE "drop_return")
    /\ UNCHANGED << sink, configs, drainLogs >>

\* cleanup returns; at the end of finish the Box is dropped, which runs
\* Drop::drop on the finished sink.
TdReturn ==
    /\ pc.at \in {"finish_return", "drop_return"}
    /\ IF pc.at = "finish_return"
       THEN /\ ~DropGuard(Self)
            /\ Commit(drop(Self))
       ELSE Commit(Self)
    /\ sink' = "dropped"
    /\ pc' = [at |-> "returned", child |-> None]
    /\ UNCHANGED << configs, drainLogs >>

TdStep == TdTake \/ TdWaitTimeout \/ TdKill \/ TdWait \/ TdReturn

NextTeardown ==
    \/ TdEncode
    \/ ProcExit
    \/ TdFinish
    \/ TdDrop
    \/ TdTake
    \/ TdWaitTimeout
    \/ TdKill
    \/ TdWait
    \/ TdReturn

\* The thread that runs finish or drop keeps running: a step of the
\* shutdown routine that stays possible is eventually taken.  Nothing makes
\* the child exit on its own.
SpecTeardown == Init /\ [][NextTeardown]_vars /\ WF_vars(TdStep)

----------------------------------------------------------------------------
SpawnIds == 1..Len(spawns)

C12_Fallback ==
    \A i \in SpawnIds :
        (/\ spawns[i].preference /= None
         /\ spawns[i].preference[1] \notin spawns[i].advertised)
        => spawns[i].encoder = "libx264"

\* C13: the quality arguments of a spawn are determined by the selected
\* codec, the preset and the quality factor: each hardware codec has its own
\* arguments, and libx264 and every other codec name get -preset <preset>
\* -crf <factor>.
C13_QualityTable ==
    \A i \in SpawnIds :
        LET r == spawns[i]
        IN /\ r.encoder = "h264_nvenc"
                => r.quality = <<"-preset", r.preset, "-cq", r.crf>>
           /\ r.encoder = "h264_qsv"
                => r.quality = <<"-preset", r.preset,
                                 "-global_quality", r.crf>>
           /\ r.encoder = "h264_vaapi"
                => r.quality = <<"-vaapi_device", "/dev/dri/renderD128",
                                 "-qp", r.crf>>
           /\ r.encoder = "h264_videotoolbox"
                => r.quality = <<"-q:v", r.crf>>
           /\ r.encoder \notin {"h264_nvenc", "h264_qsv", "h264_vaapi",
                                 "h264_videotoolbox"}
                => r.quality = <<"-preset", r.preset, "-crf", r.crf>>
           /\ r.preset = preset /\ r.crf = crf

\* A spawn with a codec name outside the table got the libx264 arguments.
C13_Witness ==
    /\ spawns /= <<>>
    /\ spawns[1].encoder = "hevc_amf"
    /\ spawns[1].quality
         = <<"-preset", spawns[1].preset, "-crf", spawns[1].crf>>

\* C14: a finish or a drop that has started eventually returns, whether the
\* child exits, hangs or has exited before; a drop that found a process
\* returns after closing the input channel, kill and wait, with the child
\* reaped, and a finish returns after one wait_timeout and at most one kill
\* and one wait.
C14_TeardownTerminates ==
    /\ (sink = "closing") ~> (sink = "dropped")
    /\ []((pc.at = "drop_return" /\ shutdowns /= <<>>)
            => /\ events = <<"close_stdin", "kill", "wait">>
               /\ osProc = "reaped" /\ reaps = 1)
    /\ []((pc.at = "finish_return" /\ shutdowns /= <<>>)
            => /\ Count(events, "wait_timeout") = 1
               /\ Count(events, "kill") <= 1
               /\ Count(events, "wait") <= 1
               /\ osProc /= "running")

\* A finish on a child that did not exit within the timeout has returned
\* after kill and wait.
C14_Witness ==
    /\ sink = "dropped" /\ pc.at = "returned"
    /\ finished
    /\ waits = <<"timeout">>
    /\ events = <<"close_stdin", "wait_timeout", "kill", "wait">>
    /\ osStatus = "killed"

\* C15: when a finish saw the child exit within the timeout with a failure
\* status, the main path has read the child's stderr and the error it
\* logged carries that output together with the status.
C15_StderrReported ==
    (finished /\ waits = <<"exit_failure">>)
    => /\ "main" \in stderrReaders
       /\ Count(logs, "error_ffmpeg_failed_with_stderr") = 1

C17_OneDrainTask ==
    /\ Len(drains) = Len(spawns)
    /\ \A i \in 1..Len(drains) : drains[i] = 0
    /\ (spawns = <<>>) <=> (drain = "none")
    /\ spawns = <<>> => (stderrReaders = {} /\ drainLogs = <<>>)
    /\ Len(drainLogs) <= 1
    /\ drainLogs /= <<>> => drain = "stopped"
    /\ drain = "stopped"
         => (drainLogs /= <<>> \/ osProc \in {"exited", "reaped"})

\* The drain thread of a running child that has received frame bytes
\* stopped at a failed read.
C17_Witness ==
    /\ Len(spawns) = 1 /\ drains = <<0>>
    /\ stdinPipe /= <<>>
    /\ osProc = "running"
    /\ drain = "stopped"
    /\ drainLogs = <<"warn_stderr_read_failed">>

\* C18: before the first encode call, whatever was configured, there is no
\* process handle, nothing was spawned, and finished is false as long as
\* the sink is alive.
C18_NoProcessBeforeEncode ==
    calls = <<>>
    => /\ process = None
       /\ spawns = <<>>
       /\ osProc = "absent"
       /\ drain = "none"
       /\ sink = "alive" => ~finished

\* An explicit resolution was set and no encode call was made.
C18_Witness ==
    /\ sink = "alive" /\ calls = <<>>
    /\ configs = 1
    /\ resolution /= None

\* C19: when a session in which nothing was spawned is over, whether by
\* finish or by drop, the shutdown did nothing: no close, wait or kill, no
\* process taken, no shutdown outcome and no warning logged.
C19_AbsentHandleNoOp ==
    (SessionOver /\ spawns = <<>>)
    => /\ events = <<>> /\ waits = <<>> /\ shutdowns = <<>>
       /\ reaps = 0 /\ implicit = 0
       /\ osProc = "absent"
       /\ \A i \in 1..Len(logs) : logs[i] = "info_using_encoder"
       /\ Count(logs, "info_using_encoder") = Len(calls)

\* A sink whose only encode calls failed to spawn was finished.
C19_Witness ==
    /\ sink = "dropped" /\ finished /\ finishCalls = 1
    /\ calls /= <<>> /\ spawns = <<>>
    /\ calls[1].result = "SpawnError"

\* C20: once an encode call has failed in the write, the process handle is
\* present at its return and stays until the shutdown, no later call spawns
\* or adds a byte to the input channel, the session has only ever spawned
\* that one process, and the finish or drop that ends the session shuts it
\* down.
C20_NoRespawnAfterWriteError ==
    \A i \in CallIds :
        calls[i].result = "IoError"
        => /\ calls[i].present
           /\ Len(spawns) = 1
           /\ stdinPipe = WrittenStream(i)
           /\ \A j \in CallIds :
                 j > i => /\ ~calls[j].spawned
                          /\ calls[j].written = 0
                          /\ calls[j].present
           /\ sink = "alive" => process /= None
           /\ SessionOver
                => /\ process = None
                   /\ Len(shutdowns) = 1
                   /\ events /= <<>> /\ events[1] = "close_stdin"
                   /\ osProc \in {"exited", "reaped"}

\* A write failed after a frame had been encoded, a further encode call
\* was made, and the session was then finished.
C20_Witness ==
    /\ Len(calls) = 2
    /\ calls[1].result = "IoError" /\ calls[1].written > 0
    /\ calls[2].result = "IoError"
    /\ sink = "dropped" /\ finished
    /\ Len(shutdowns) = 1

====
